---- MODULE Spec2Model ----
(***************************************************************************)
(* Secure file access control and delivery (apps/files of sauvini_backend). *)
(* State: the File, FileAccess, FileAccessLog and FileUploadSession tables, *)
(* the object store, the clock, and the position of every request handler   *)
(* that is in flight.  A handler is cut at its database / object-store      *)
(* operations, so that concurrent requests interleave as the requests of a  *)
(* multi-worker Django deployment do.  Model objects held by a handler are  *)
(* snapshots of the row read; save() writes the whole snapshot back.        *)
(* Time is in whole seconds.                                                *)
(***************************************************************************)
EXTENDS Integers, Sequences, FiniteSets, TLC

VARIABLES now, ticks, files, grants, accessLog, sessions, store,
          acc, upl, faults, issued, tier, replies, presigned

vars == <<now, ticks, files, grants, accessLog, sessions, store,
          acc, upl, faults, issued, tier, replies, presigned>>

(* ------------------------------ bounds --------------------------------- *)
MaxTicks == 1
MaxFaults == 1
MaxSessions == 1
MaxChecks == 2
MaxReplies == 3
MaxLogRows == 21

(* ------------------------- program constants --------------------------- *)
UploadWindow == 3600
SignedUrlTTL == 3600
RecordingTTL == 31536000
SuspiciousCount == 20
DetectorWindow == 5 * 60
GrantDays == 30
MaxSizeMB == 100
MiB == 1024 * 1024
GrantTTL == GrantDays * 24 * 60 * 60

(* ------------------------------ domains -------------------------------- *)
None == <<>>
Some(v) == <<v>>
IsNone(o) == Len(o) = 0
Val(o) == o[1]

FileAccessLevel == {"public", "student", "professor", "admin"}
FileType == {"video", "pdf", "document", "image", "audio"}
AllProfiles == {"student", "professor", "admin"}

Users == {"guest", "stu1", "stu2", "prof", "adm"}
Profiles(u) ==
    CASE u = "guest" -> {}
      [] u = "stu1" -> {"student"}
      [] u = "stu2" -> {"student"}
      [] u = "prof" -> {"professor"}
      [] u = "adm" -> {"admin"}

AProcs == {"a1", "a2"}
UProcs == {"u1", "u2"}

(* ------------------------ SecureFileService ---------------------------- *)
get_user_role(profiles) ==
    IF "admin" \in profiles THEN "admin"
    ELSE IF "professor" \in profiles THEN "professor"
    ELSE IF "student" \in profiles THEN "student"
    ELSE "user"

check_access_level_lenient(level, profiles) ==
    IF level = "public" THEN TRUE
    ELSE LET user_role == get_user_role(profiles) IN
         IF level = "student" THEN user_role \in {"student", "professor", "admin"}
         ELSE IF level = "professor" THEN user_role \in {"student", "professor", "admin"}
         ELSE IF level = "admin" THEN user_role = "admin"
         ELSE FALSE

check_access_level(level, profiles) ==
    IF level = "public" THEN TRUE
    ELSE LET user_role == get_user_role(profiles) IN
         IF level = "student" THEN user_role \in {"student", "professor", "admin"}
         ELSE IF level = "professor" THEN user_role \in {"professor", "admin"}
         ELSE IF level = "admin" THEN user_role = "admin"
         ELSE FALSE

(* File.is_expired, FileAccess.is_expired, FileUploadSession.is_expired *)
is_expired_reversed(expires_at, t) ==
    IF IsNone(expires_at) THEN FALSE ELSE t < Val(expires_at)

is_expired(expires_at, t) ==
    IF IsNone(expires_at) THEN FALSE ELSE t > Val(expires_at)

GrantRows(fid, u, atype) ==
    {g \in grants : g.file = fid /\ g.user = u /\ g.access_type = atype}

(* FileAccess.objects.get(file, user, access_type): the row, or None *)
GetGrant(fid, u, atype) ==
    IF GrantRows(fid, u, atype) = {} THEN None
    ELSE Some(CHOOSE g \in GrantRows(fid, u, atype) : TRUE)

check_file_access_permissions_no_expiry(f, fid, u, atype, t) ==
    IF atype = "download" /\ ~f.allow_download THEN FALSE
    ELSE IF atype = "stream" /\ ~f.allow_streaming THEN FALSE
    ELSE LET ga == GetGrant(fid, u, atype) IN
         IF ~IsNone(ga)
         THEN IF atype = "download" /\ ~IsNone(f.max_downloads)
                 /\ Val(f.max_downloads) # 0
                 /\ Val(ga).access_count >= Val(f.max_downloads)
              THEN FALSE
              ELSE TRUE
         ELSE check_access_level(f.access_level, Profiles(u))

check_file_access_permissions_admin_bypass(f, fid, u, atype, t) ==
    IF "admin" \in Profiles(u) THEN TRUE
    ELSE IF atype = "download" /\ ~f.allow_download THEN FALSE
    ELSE IF atype = "stream" /\ ~f.allow_streaming THEN FALSE
    ELSE LET ga == GetGrant(fid, u, atype) IN
         IF ~IsNone(ga)
         THEN IF is_expired(Val(ga).expires_at, t) THEN FALSE
              ELSE IF atype = "download" /\ ~IsNone(f.max_downloads)
                      /\ Val(f.max_downloads) # 0
                      /\ Val(ga).access_count >= Val(f.max_downloads)
                   THEN FALSE
                   ELSE TRUE
         ELSE check_access_level(f.access_level, Profiles(u))

check_file_access_permissions(f, fid, u, atype, t) ==
    IF atype = "download" /\ ~f.allow_download THEN FALSE
    ELSE IF atype = "stream" /\ ~f.allow_streaming THEN FALSE
    ELSE LET ga == GetGrant(fid, u, atype) IN
         IF ~IsNone(ga)
         THEN IF is_expired(Val(ga).expires_at, t) THEN FALSE
              ELSE IF atype = "download" /\ ~IsNone(f.max_downloads)
                      /\ Val(f.max_downloads) # 0
                      /\ Val(ga).access_count >= Val(f.max_downloads)
                   THEN FALSE
                   ELSE TRUE
         ELSE check_access_level(f.access_level, Profiles(u))

check_content_access(f, u) ==
    IF ~f.assoc THEN check_access_level(f.access_level, Profiles(u))
    ELSE TRUE

verify_file_access(f, fid, u, atype, t) ==
    IF ~f.is_active \/ is_expired(f.expires_at, t) THEN FALSE
    ELSE IF ~check_access_level(f.access_level, Profiles(u)) THEN FALSE
    ELSE IF ~check_file_access_permissions(f, fid, u, atype, t) THEN FALSE
    ELSE IF ~check_content_access(f, u) THEN FALSE
    ELSE TRUE

LogEntry(fid, u, action, success, t) ==
    [file |-> fid, user |-> u, action |-> action, success |-> success,
     response_code |-> IF success THEN 200 ELSE 403, timestamp |-> t]

(* log_access_attempt: the insert, or nothing when the insert raises *)
log_access_attempt(log, fid, u, action, success, t, dbOk) ==
    IF dbOk THEN Append(log, LogEntry(fid, u, action, success, t)) ELSE log

(* ------------------------------ requests ------------------------------- *)
(* Injected faults (a store or database operation that raises) are counted *)
(* against MaxFaults                                                        *)
Fails(ok) == IF ok THEN 0 ELSE 1

Charge(n) ==
    /\ faults + n <= MaxFaults
    /\ faults' = faults + n

AccessTypes == {"download", "stream"}
FileIds == 1..(Cardinality(UProcs) + 1)
Keys == FileIds \X Users \X AccessTypes

NoResp == [status |-> 0, message |-> "", signed_url |-> FALSE]
Resp(code, msg, url) == [status |-> code, message |-> msg, signed_url |-> url]

NoFile ==
    [is_active |-> FALSE, access_level |-> "", file_type |-> "",
     allow_download |-> FALSE, allow_streaming |-> FALSE,
     max_downloads |-> None, expires_at |-> None, uploaded_by |-> "",
     assoc |-> FALSE, file_path |-> 0]

(* what one log_access_attempt call left behind: whether its row was       *)
(* written, and the success flag it carried                                *)
Attempt(log, log2, success) ==
    <<[written |-> Len(log2) = Len(log) + 1, success |-> success]>>

AccIdle ==
    [pc |-> "idle", user |-> "", fid |-> 0, fobj |-> NoFile, atype |-> "",
     gobj |-> None, resp |-> NoResp, logged |-> <<>>, ttl |-> 0, caller |-> ""]

FileExists(fid) == fid \in 1..Len(files)

(* ------------------- detect_suspicious_activity ------------------------ *)
RecentAccesses(log, u, fid, t) ==
    {i \in 1..Len(log) : /\ log[i].user = u /\ log[i].file = fid
                         /\ log[i].timestamp >= t - DetectorWindow}

detect_suspicious_activity_at_threshold(log, u, fid, t) ==
    Cardinality(RecentAccesses(log, u, fid, t)) >= SuspiciousCount

detect_suspicious_activity(log, u, fid, t) ==
    Cardinality(RecentAccesses(log, u, fid, t)) > SuspiciousCount

(* ------------------- get_file_access (views.py) ------------------------ *)
(* File.objects.get(id=file_id, is_active=True); 404 when there is no row; *)
(* the detector's call and its 429 answer are commented out                *)
AStartRestricting(p, u, fid) ==
    /\ acc[p].pc = "idle"
    /\ IF FileExists(fid) /\ files[fid].is_active
       THEN IF detect_suspicious_activity(accessLog, u, fid, now)
            THEN acc' = [acc EXCEPT ![p] =
                [AccIdle EXCEPT !.pc = "done", !.user = u, !.fid = fid,
                    !.caller = "view",
                    !.resp = Resp(429,
                        "Access temporarily restricted due to suspicious activity",
                        FALSE)]]
            ELSE acc' = [acc EXCEPT ![p] =
                [AccIdle EXCEPT !.pc = "loaded", !.user = u, !.fid = fid,
                    !.fobj = files[fid], !.ttl = SignedUrlTTL, !.caller = "view",
                    !.atype = IF files[fid].file_type = "video"
                              THEN "stream" ELSE "download"]]
       ELSE acc' = [acc EXCEPT ![p] =
                [AccIdle EXCEPT !.pc = "done", !.user = u, !.fid = fid,
                    !.caller = "view",
                    !.resp = Resp(404, "File not found", FALSE)]]
    /\ UNCHANGED <<now, ticks, files, grants, accessLog, sessions, store, upl, faults, issued, tier, replies, presigned>>

AStart(p, u, fid) ==
    /\ acc[p].pc = "idle"
    /\ IF FileExists(fid) /\ files[fid].is_active
       THEN acc' = [acc EXCEPT ![p] =
                [AccIdle EXCEPT !.pc = "loaded", !.user = u, !.fid = fid,
                    !.fobj = files[fid], !.ttl = SignedUrlTTL, !.caller = "view",
                    !.atype = IF files[fid].file_type = "video"
                              THEN "stream" ELSE "download"]]
       ELSE acc' = [acc EXCEPT ![p] =
                [AccIdle EXCEPT !.pc = "done", !.user = u, !.fid = fid,
                    !.caller = "view",
                    !.resp = Resp(404, "File not found", FALSE)]]
    /\ UNCHANGED <<now, ticks, files, grants, accessLog, sessions, store, upl, faults, issued, tier, replies, presigned>>

(* log_access_attempt's try / except Exception: whether a failing insert    *)
(* raises out of log_access_attempt                                        *)
log_access_raises_unguarded(dbOk) == ~dbOk

log_access_raises(dbOk) == FALSE

(* what the caller of generate_signed_url makes of an exception: the view's *)
(* except Exception answers 500, the recording upload falls back to the     *)
(* file path                                                                *)
Failure(caller, msg) ==
    IF caller = "view"
    THEN Resp(500, "Error generating file access: " \o msg, FALSE)
    ELSE Resp(0, "Could not generate signed URL, using file path", FALSE)

(* generate_signed_url, lines 61-85: the policy check, presigned_get_object *)
(* with expires = expires_in, and the log row.  A refusal is raised as      *)
(* PermissionDenied and a store error as ValidationError                    *)
ACheck(p, s3Ok, logOk) ==
    /\ acc[p].pc = "loaded"
    /\ LET a == acc[p]
           ok == verify_file_access(a.fobj, a.fid, a.user, a.atype, now)
           raised == log_access_raises(logOk) IN
       /\ ~ok => s3Ok
       /\ Charge(Fails(s3Ok) + Fails(logOk))
       /\ presigned' = IF ok THEN presigned \cup {a.ttl} ELSE presigned
       /\ accessLog' = log_access_attempt(accessLog, a.fid, a.user, a.atype,
                                          ok /\ s3Ok, now, logOk)
       /\ IF ok /\ s3Ok /\ ~raised
          THEN acc' = [acc EXCEPT ![p].pc = "count",
                   ![p].logged = a.logged \o Attempt(accessLog, accessLog', ok /\ s3Ok)]
          ELSE acc' = [acc EXCEPT ![p].pc = "done", ![p].fobj = NoFile,
                   ![p].logged = a.logged \o Attempt(accessLog, accessLog', ok /\ s3Ok),
                   ![p].resp = Failure(a.caller,
                       IF raised THEN "database error"
                       ELSE IF ~ok
                       THEN "You don't have permission to access this file"
                       ELSE "Error generating file access URL")]
    /\ UNCHANGED <<now, ticks, files, grants, sessions, store, upl, issued, tier, replies>>

(* update_access_count: get_or_create's SELECT *)
AGetGrant(p) ==
    /\ acc[p].pc = "count"
    /\ LET a == acc[p]
           ga == GetGrant(a.fid, a.user, a.atype) IN
       acc' = [acc EXCEPT ![p].gobj = ga,
                          ![p].pc = IF IsNone(ga) THEN "insert" ELSE "save"]
    /\ UNCHANGED <<now, ticks, files, grants, accessLog, sessions, store, upl, faults, issued, tier, replies, presigned>>

NewGrant(fid, u, atype, t) ==
    [rid |-> Cardinality(grants) + 1, file |-> fid, user |-> u,
     access_type |-> atype, granted_by |-> u,
     expires_at |-> Some(t + GrantTTL),
     access_count |-> 0, last_accessed |-> None]

(* update_access_count: get_or_create's INSERT under unique_together; on a  *)
(* duplicate key the row that won is read instead                          *)
AInsertGrantUnconstrained(p) ==
    /\ acc[p].pc = "insert"
    /\ LET a == acc[p]
           g == NewGrant(a.fid, a.user, a.atype, now) IN
       /\ grants' = grants \cup {g}
       /\ acc' = [acc EXCEPT ![p].gobj = Some(g), ![p].pc = "save"]
    /\ UNCHANGED <<now, ticks, files, accessLog, sessions, store, upl, faults, issued, tier, replies, presigned>>

AInsertGrant(p) ==
    /\ acc[p].pc = "insert"
    /\ LET a == acc[p] IN
       IF GrantRows(a.fid, a.user, a.atype) = {}
       THEN LET g == NewGrant(a.fid, a.user, a.atype, now) IN
            /\ grants' = grants \cup {g}
            /\ acc' = [acc EXCEPT ![p].gobj = Some(g), ![p].pc = "save"]
       ELSE /\ acc' = [acc EXCEPT ![p].gobj = GetGrant(a.fid, a.user, a.atype),
                                  ![p].pc = "save"]
            /\ UNCHANGED grants
    /\ UNCHANGED <<now, ticks, files, accessLog, sessions, store, upl, faults, issued, tier, replies, presigned>>

(* file_access.access_count += 1 on the object read, then save() *)
Bumped(g, t) ==
    [g EXCEPT !.access_count = g.access_count + 1, !.last_accessed = Some(t)]

SaveGrant(g) == {x \in grants : x.rid # g.rid} \cup {g}

(* update_access_count lines 234-239 (a failing save is logged and dropped), *)
(* then the 200 response with the signed URL                                 *)
ASave(p, dbOk) ==
    /\ acc[p].pc = "save"
    /\ LET a == acc[p] IN
       /\ Charge(Fails(dbOk))
       /\ grants' = IF dbOk THEN SaveGrant(Bumped(Val(a.gobj), now)) ELSE grants
       /\ acc' = [acc EXCEPT ![p].pc = "done", ![p].fobj = NoFile,
                             ![p].gobj = None,
                             ![p].resp = IF a.caller = "view"
                                         THEN Resp(200, "File access granted", TRUE)
                                         ELSE Resp(0, "recording_url", TRUE)]
       /\ issued' = [issued EXCEPT ![<<a.fid, a.user, a.atype>>] = @ + 1]
    /\ UNCHANGED <<now, ticks, files, accessLog, sessions, store, upl, tier, replies, presigned>>

(* The answers of the handlers that run in one step, kept for inspection;   *)
(* at most MaxReplies of them are kept                                      *)
Reply(r) ==
    /\ Cardinality(replies) < MaxReplies
    /\ replies' = replies \cup {r}

DeleteReply(u, fid, code) ==
    [op |-> "delete_file", user |-> u, fid |-> fid, status |-> code,
     was_active |-> FileExists(fid) /\ files[fid].is_active]

Detect(u, fid) ==
    /\ FileExists(fid)
    /\ Reply([op |-> "detect_suspicious_activity", user |-> u, fid |-> fid,
              at |-> now,
              result |-> detect_suspicious_activity(accessLog, u, fid, now)])
    /\ UNCHANGED <<now, ticks, files, grants, accessLog, sessions, store, acc, upl, faults, issued, tier, presigned>>

(* ---------------- live recordings (lives/services.py) ------------------ *)
RecordingFile(path, assoc) ==
    [is_active |-> TRUE, access_level |-> "student", file_type |-> "video",
     allow_download |-> TRUE, allow_streaming |-> TRUE,
     max_downloads |-> None, expires_at |-> None, uploaded_by |-> "prof",
     assoc |-> assoc, file_path |-> path]

(* upload_recording_to_minio / upload_recording_from_file_object up to the  *)
(* call of generate_signed_url(file, professor, 'stream', 31536000):        *)
(* put_object, then File.objects.create; either failing returns None.  The  *)
(* two writes touch no row another handler reads, so they are one step      *)
RStart(p, size, assoc, putOk, dbOk) ==
    /\ acc[p].pc = "idle"
    /\ Len(files) < Cardinality(FileIds)
    /\ ~putOk => dbOk
    /\ Charge(Fails(putOk) + Fails(dbOk))
    /\ LET path == Cardinality(store) + 1
           me == [AccIdle EXCEPT !.user = "prof", !.caller = "recording"] IN
       /\ store' = IF putOk
                   THEN store \cup {[path |-> path, size |-> size, by_session |-> 0]}
                   ELSE store
       /\ IF putOk /\ dbOk
          THEN /\ files' = Append(files, RecordingFile(path, assoc))
               /\ acc' = [acc EXCEPT ![p] =
                        [me EXCEPT !.pc = "loaded", !.fid = Len(files) + 1,
                            !.fobj = RecordingFile(path, assoc),
                            !.atype = "stream", !.ttl = RecordingTTL]]
          ELSE /\ UNCHANGED files
               /\ acc' = [acc EXCEPT ![p] =
                        [me EXCEPT !.pc = "done",
                            !.resp = Resp(0, "Error uploading recording to MinIO", FALSE)]]
    /\ UNCHANGED <<now, ticks, grants, accessLog, sessions, upl, issued, tier, replies, presigned>>

(* delete_file (views.py): File.objects.get(id, uploaded_by=request.user),  *)
(* is_active = False, save(); 404 when the caller has no such file          *)
DeleteFileActiveOnly(u, fid) ==
    /\ IF FileExists(fid) /\ files[fid].uploaded_by = u /\ files[fid].is_active
       THEN /\ files' = [files EXCEPT ![fid].is_active = FALSE]
            /\ Reply(DeleteReply(u, fid, 200))
       ELSE /\ UNCHANGED files
            /\ Reply(DeleteReply(u, fid, 404))
    /\ UNCHANGED <<now, ticks, grants, accessLog, sessions, store, acc, upl, faults, issued, tier, presigned>>

DeleteFile(u, fid) ==
    /\ IF FileExists(fid) /\ files[fid].uploaded_by = u
       THEN /\ files' = [files EXCEPT ![fid].is_active = FALSE]
            /\ Reply(DeleteReply(u, fid, 200))
       ELSE /\ UNCHANGED files
            /\ Reply(DeleteReply(u, fid, 404))
    /\ UNCHANGED <<now, ticks, grants, accessLog, sessions, store, acc, upl, faults, issued, tier, presigned>>

(* the clock *)
Advance(d) ==
    /\ ticks < MaxTicks
    /\ ticks' = ticks + 1
    /\ now' = now + d
    /\ UNCHANGED <<files, grants, accessLog, sessions, store, acc, upl, faults, issued, tier, replies, presigned>>

(* --------------------- upload sessions (services.py) ------------------- *)
FileNames == {"a.pdf"}
Sizes == {2}
Garbage == [user_id |-> "", file_name |-> "", file_size |-> 0, iat |-> 0, exp |-> 0,
            signed |-> FALSE]

(* generate_upload_token: the HS256 token is a function of its payload *)
generate_upload_token(u, file_name, file_size, t) ==
    [user_id |-> u, file_name |-> file_name, file_size |-> file_size,
     iat |-> t, exp |-> t + UploadWindow, signed |-> TRUE]

(* verify_upload_token: jwt.decode checks the signature, then exp against   *)
(* the clock; at now = exp the outcome depends on the PyJWT release         *)
(* (exp < now up to 1.x, exp <= now from 2.0), hence expAtBoundary          *)
verify_upload_token_no_exp(token, t, expAtBoundary) ==
    IF ~token.signed THEN "invalid" ELSE "ok"

verify_upload_token(token, t, expAtBoundary) ==
    IF ~token.signed THEN "invalid"
    ELSE IF token.exp < t \/ (expAtBoundary /\ token.exp = t) THEN "expired"
    ELSE "ok"

(* create_upload_session (views.py 109-149): the request's validation; a   *)
(* field of the body is None when the body lacks it                        *)
ValidSessionRequest(file_size, file_type, mime_type, access_level) ==
    /\ ~IsNone(mime_type)
    /\ file_type \in FileType
    /\ access_level \in FileAccessLevel
    /\ ~(file_size > MaxSizeMB * MiB)

SessionWithToken(tok) == {s \in sessions : s.upload_token = tok}

NewSession(u, file_name, file_size, file_type, mime_type, t) ==
    [sid |-> Cardinality(sessions) + 1, user |-> u, file_name |-> file_name,
     file_size |-> file_size, file_type |-> file_type, mime_type |-> mime_type,
     upload_token |-> generate_upload_token(u, file_name, file_size, t),
     status |-> "pending", created_at |-> t, expires_at |-> Some(t + UploadWindow),
     completed_at |-> None, uploaded_file |-> None, error_message |-> ""]

SessionReply(u, file_size, file_type, mime_type, access_level, code) ==
    [op |-> "create_upload_session", user |-> u, file_size |-> file_size,
     file_type |-> file_type, mime_type |-> mime_type,
     access_level |-> access_level, status |-> code, at |-> now]

(* create_upload_session: validation (400), the token, the INSERT (201);    *)
(* upload_token is unique, so a duplicate raises, leaves no row and is      *)
(* answered 500 by the except Exception.  MaxSessions bounds the rows of    *)
(* the table, so it guards the requests that would add one                  *)
CreateSession(u, file_name, file_size, file_type, mime_type, access_level) ==
    /\ (/\ ValidSessionRequest(file_size, file_type, mime_type, access_level)
        /\ SessionWithToken(generate_upload_token(u, file_name, file_size,
                                                  now)) = {})
          => Cardinality(sessions) < MaxSessions
    /\ IF ~ValidSessionRequest(file_size, file_type, mime_type, access_level)
       THEN /\ UNCHANGED sessions
            /\ Reply(SessionReply(u, file_size, file_type, mime_type,
                                  access_level, 400))
       ELSE LET s == NewSession(u, file_name, file_size, file_type,
                                Val(mime_type), now) IN
            IF SessionWithToken(s.upload_token) = {}
            THEN /\ sessions' = sessions \cup {s}
                 /\ Reply(SessionReply(u, file_size, file_type, mime_type,
                                       access_level, 201))
            ELSE /\ UNCHANGED sessions
                 /\ Reply(SessionReply(u, file_size, file_type, mime_type,
                                       access_level, 500))
    /\ UNCHANGED <<now, ticks, files, grants, accessLog, store, acc, upl, faults, issued, tier, presigned>>

(* ----------------------- upload_file (views.py) ------------------------ *)
NoSession ==
    [sid |-> 0, user |-> "", file_name |-> "", file_size |-> 0, file_type |-> "",
     mime_type |-> "", upload_token |-> Garbage, status |-> "",
     created_at |-> 0, expires_at |-> None, completed_at |-> None,
     uploaded_file |-> None, error_message |-> ""]

UplIdle ==
    [pc |-> "idle", user |-> "", token |-> Garbage, data |-> None,
     sobj |-> NoSession, path |-> 0, fid |-> 0,
     resp |-> NoResp, puts |-> 0, created |-> 0]

Tokens == {s.upload_token : s \in sessions} \cup {Garbage}

(* FileUploadSession.objects.get(upload_token, user, status__in=[...]) *)
OpenSessionsAnyUser(tok, u) ==
    {s \in sessions : s.upload_token = tok
                      /\ s.status \in {"pending", "uploading"}}

OpenSessions(tok, u) ==
    {s \in sessions : s.upload_token = tok /\ s.user = u
                      /\ s.status \in {"pending", "uploading"}}

(* session.save(): UPDATE of every column of the row with the object's pk *)
SaveSession(s) == {x \in sessions : x.sid # s.sid} \cup {s}

(* lines 196-213: token verification and the session lookup *)
UStart(p, u, tok, data, expAtBoundary) ==
    /\ upl[p].pc = "idle"
    /\ LET v == verify_upload_token(tok, now, expAtBoundary)
           me == [UplIdle EXCEPT !.user = u, !.token = tok, !.data = data] IN
       IF v = "expired"
       THEN upl' = [upl EXCEPT ![p] = [me EXCEPT !.pc = "done",
                        !.resp = Resp(400, "Upload token has expired", FALSE)]]
       ELSE IF v = "invalid"
       THEN upl' = [upl EXCEPT ![p] = [me EXCEPT !.pc = "done",
                        !.resp = Resp(400, "Invalid upload token", FALSE)]]
       ELSE IF OpenSessions(tok, u) = {}
       THEN upl' = [upl EXCEPT ![p] = [me EXCEPT !.pc = "done",
                        !.resp = Resp(404, "Invalid or expired upload session", FALSE)]]
       ELSE upl' = [upl EXCEPT ![p] = [me EXCEPT !.pc = "claim",
                        !.sobj = CHOOSE s \in OpenSessions(tok, u) : TRUE]]
    /\ UNCHANGED <<now, ticks, files, grants, accessLog, sessions, store, acc, faults, issued, tier, replies, presigned>>

(* lines 215-237: the expiry check, status = 'uploading', the file part *)
UClaim(p) ==
    /\ upl[p].pc = "claim"
    /\ LET a == upl[p] IN
       IF is_expired(a.sobj.expires_at, now)
       THEN LET s == [a.sobj EXCEPT !.status = "cancelled"] IN
            /\ sessions' = SaveSession(s)
            /\ upl' = [upl EXCEPT ![p].sobj = NoSession, ![p].data = None,
                          ![p].pc = "done",
                          ![p].resp = Resp(410, "Upload session has expired", FALSE)]
       ELSE LET s == [a.sobj EXCEPT !.status = "uploading"] IN
            /\ sessions' = SaveSession(s)
            /\ IF IsNone(a.data)
               THEN upl' = [upl EXCEPT ![p].sobj = NoSession, ![p].data = None,
                          ![p].pc = "done",
                          ![p].resp = Resp(400, "No file provided", FALSE)]
               ELSE upl' = [upl EXCEPT ![p].sobj = s, ![p].pc = "put"]
    /\ UNCHANGED <<now, ticks, files, grants, accessLog, store, acc, faults, issued, tier, replies, presigned>>

SizeOkAtMost(size, declared) == size <= declared

SizeOk(size, declared) == size = declared

(* lines 239-279: the size check, then put_object under a fresh path *)
UPut(p, putOk) ==
    /\ upl[p].pc = "put"
    /\ ~SizeOk(Val(upl[p].data), upl[p].sobj.file_size) => putOk
    /\ Charge(Fails(putOk))
    /\ LET a == upl[p] IN
       IF ~SizeOk(Val(a.data), a.sobj.file_size)
       THEN LET s == [a.sobj EXCEPT !.status = "failed",
                                    !.error_message = "File size mismatch"] IN
            /\ sessions' = SaveSession(s)
            /\ upl' = [upl EXCEPT ![p].sobj = NoSession, ![p].data = None,
                          ![p].pc = "done",
                          ![p].resp = Resp(400, "File size does not match expected size", FALSE)]
            /\ UNCHANGED store
       ELSE IF putOk
       THEN LET path == Cardinality(store) + 1 IN
            /\ store' = store \cup {[path |-> path, size |-> Val(a.data),
                                     by_session |-> a.sobj.sid]}
            /\ upl' = [upl EXCEPT ![p].path = path, ![p].pc = "create",
                                  ![p].puts = a.puts + 1]
            /\ UNCHANGED sessions
       ELSE LET s == [a.sobj EXCEPT !.status = "failed",
                                    !.error_message = "S3Error"] IN
            /\ sessions' = SaveSession(s)
            /\ upl' = [upl EXCEPT ![p].sobj = NoSession, ![p].data = None,
                          ![p].pc = "done",
                          ![p].resp = Resp(500, "Error uploading file to storage", FALSE)]
            /\ UNCHANGED store
    /\ UNCHANGED <<now, ticks, files, grants, accessLog, acc, issued, tier, replies, presigned>>

NewFile(s, u, level, assoc, path) ==
    [is_active |-> TRUE, access_level |-> level, file_type |-> s.file_type,
     allow_download |-> TRUE, allow_streaming |-> TRUE,
     max_downloads |-> None, expires_at |-> None, uploaded_by |-> u,
     assoc |-> assoc, file_path |-> path]

(* lines 288-302: File.objects.create; a database error reaches the outer   *)
(* except Exception and the session row is left as it is                    *)
UCreate(p, level, assoc, dbOk) ==
    /\ upl[p].pc = "create"
    /\ Charge(Fails(dbOk))
    /\ LET a == upl[p] IN
       IF dbOk
       THEN /\ files' = Append(files, NewFile(a.sobj, a.user, level, assoc, a.path))
            /\ upl' = [upl EXCEPT ![p].fid = Len(files) + 1, ![p].pc = "finalize",
                                  ![p].created = a.created + 1]
       ELSE /\ upl' = [upl EXCEPT ![p].sobj = NoSession, ![p].data = None,
                          ![p].pc = "done",
                          ![p].resp = Resp(500, "Error uploading file", FALSE)]
            /\ UNCHANGED files
    /\ UNCHANGED <<now, ticks, grants, accessLog, sessions, store, acc, issued, tier, replies, presigned>>

(* lines 304-323: the session is completed and the 201 returned *)
UFinalize(p) ==
    /\ upl[p].pc = "finalize"
    /\ LET a == upl[p]
           s == [a.sobj EXCEPT !.status = "completed",
                               !.uploaded_file = Some(a.fid),
                               !.completed_at = Some(now)] IN
       /\ sessions' = SaveSession(s)
       /\ upl' = [upl EXCEPT ![p].sobj = NoSession, ![p].data = None,
                          ![p].pc = "done",
                             ![p].resp = Resp(201, "File uploaded successfully", FALSE)]
    /\ UNCHANGED <<now, ticks, files, grants, accessLog, store, acc, faults, issued, tier, replies, presigned>>

(* -------- FileAdmin (admin.py): the 'Access Control' fieldset ---------- *)
Policies ==
    [access_level : FileAccessLevel, allow_download : BOOLEAN,
     allow_streaming : BOOLEAN,
     max_downloads : {None, Some(0), Some(1)},
     expires_at : {None, Some(0)}]

WithPolicy(f, c) ==
    [f EXCEPT !.access_level = c.access_level, !.allow_download = c.allow_download,
              !.allow_streaming = c.allow_streaming,
              !.max_downloads = c.max_downloads, !.expires_at = c.expires_at]

AdminEdit(fid, c) ==
    /\ FileExists(fid)
    /\ files' = [files EXCEPT ![fid] = WithPolicy(files[fid], c)]
    /\ UNCHANGED <<now, ticks, grants, accessLog, sessions, store, acc, upl, faults, issued, tier, replies, presigned>>

(* --------------------------- specifications ---------------------------- *)
Callers == {"stu1", "stu2"}
Deleters == {"stu1"}
SessionOwners == {"stu1"}
Uploaders == {"stu1", "adm"}
UploadLevels == {"student", "superuser"}
UploadData == {None, Some(1), Some(2)}

InitRest ==
    /\ now = 0
    /\ ticks = 0
    /\ grants = {}
    /\ accessLog = <<>>
    /\ sessions = {}
    /\ store = {}
    /\ acc = [p \in AProcs |-> AccIdle]
    /\ upl = [p \in UProcs |-> UplIdle]
    /\ faults = 0
    /\ issued = [k \in Keys |-> 0]
    /\ tier = <<>>
    /\ replies = {}
    /\ presigned = {}

Init ==
    /\ files = <<>>
    /\ InitRest

NextAccessCalls ==
    \/ \E p \in AProcs, u \in Callers, fid \in 1..(Len(files) + 1) : AStart(p, u, fid)
    \/ \E p \in AProcs, s3Ok \in BOOLEAN, logOk \in BOOLEAN : ACheck(p, s3Ok, logOk)
    \/ \E p \in AProcs : AGetGrant(p)
    \/ \E p \in AProcs : AInsertGrant(p)
    \/ \E p \in AProcs, dbOk \in BOOLEAN : ASave(p, dbOk)
    \/ \E u \in Deleters, fid \in 1..Len(files) : DeleteFile(u, fid)

NextUploadCalls ==
    \/ \E u \in SessionOwners, n \in FileNames, z \in Sizes :
          CreateSession(u, n, z, "pdf", Some("application/pdf"), "student")
    \/ \E p \in UProcs, u \in Uploaders, tok \in Tokens, data \in UploadData,
          b \in BOOLEAN : UStart(p, u, tok, data, b)
    \/ \E p \in UProcs : UClaim(p)
    \/ \E p \in UProcs, putOk \in BOOLEAN : UPut(p, putOk)
    \/ \E p \in UProcs, level \in UploadLevels, dbOk \in BOOLEAN :
          UCreate(p, level, FALSE, dbOk)
    \/ \E p \in UProcs : UFinalize(p)

Next ==
    \/ NextAccessCalls
    \/ NextUploadCalls
    \/ \E fid \in 1..Len(files), c \in Policies : AdminEdit(fid, c)
    \/ \E d \in {1, UploadWindow, UploadWindow + 1, GrantTTL, GrantTTL + 1} : Advance(d)

Spec == Init /\ [][Next]_vars

(* The access side alone, over one stored file with any policy *)
StoredFile(c) ==
    WithPolicy([NoFile EXCEPT !.is_active = TRUE, !.file_type = c.file_type,
                              !.uploaded_by = "stu1", !.file_path = 1], c)

VideoPolicies ==
    [access_level : {"student", "admin"}, allow_download : {TRUE},
     allow_streaming : BOOLEAN, max_downloads : {None},
     expires_at : {None, Some(0)}, file_type : {"video"}]

PdfPolicies ==
    [access_level : {"student", "admin"}, allow_download : BOOLEAN,
     allow_streaming : {TRUE}, max_downloads : {None, Some(0), Some(1)},
     expires_at : {None, Some(0)}, file_type : {"pdf"}]

InitAccess ==
    /\ files \in {<<StoredFile(c)>> : c \in VideoPolicies \cup PdfPolicies}
    /\ InitRest

NextAccess ==
    \/ NextAccessCalls
    \/ \E d \in {1, GrantTTL, GrantTTL + 1} : Advance(d)

SpecAccess == InitAccess /\ [][NextAccess]_vars

(* The tier check alone, applied to any level and any set of role profiles *)
TierLevels == FileAccessLevel \cup {"superuser"}

TierCheck(level, profiles) ==
    /\ Len(tier) < MaxChecks
    /\ tier' = Append(tier, [level |-> level, profiles |-> profiles,
                             role |-> get_user_role(profiles),
                             admitted |-> check_access_level(level, profiles)])
    /\ UNCHANGED <<now, ticks, files, grants, accessLog, sessions, store,
                   acc, upl, faults, issued, replies, presigned>>

NextTier == \E level \in TierLevels, profiles \in SUBSET AllProfiles :
               TierCheck(level, profiles)

SpecTier == Init /\ [][NextTier]_vars

(* The upload side alone *)
NextUpload ==
    \/ NextUploadCalls
    \/ \E d \in {1, UploadWindow, UploadWindow + 1} : Advance(d)

SpecUpload == Init /\ [][NextUpload]_vars

(* Upload calls by the owner and by another principal, with the tokens of   *)
(* the sessions and a signed token that no session row holds               *)
OrphanToken == generate_upload_token("stu2", "b.pdf", 2, 0)
DefenseCallers == {"stu1", "stu2"}

NextDefense ==
    \/ \E u \in SessionOwners, n \in FileNames, z \in Sizes :
          CreateSession(u, n, z, "pdf", Some("application/pdf"), "student")
    \/ \E p \in UProcs, u \in DefenseCallers, tok \in Tokens \cup {OrphanToken},
          b \in BOOLEAN : UStart(p, u, tok, Some(2), b)
    \/ \E p \in UProcs : UClaim(p)
    \/ \E p \in UProcs, putOk \in BOOLEAN : UPut(p, putOk)
    \/ \E p \in UProcs, dbOk \in BOOLEAN : UCreate(p, "student", FALSE, dbOk)
    \/ \E p \in UProcs : UFinalize(p)
    \/ \E d \in {1, UploadWindow, UploadWindow + 1} : Advance(d)

SpecDefense == Init /\ [][NextDefense]_vars

(* The access side with the admin form switching the capability flags *)
FlagPolicies ==
    [access_level : {"student", "admin"}, allow_download : BOOLEAN,
     allow_streaming : BOOLEAN, max_downloads : {None},
     expires_at : {None}, file_type : {"video", "pdf"}]

FlagCallers == {"stu1", "adm"}

FlagEdits(f) ==
    {c \in Policies : /\ c.access_level = f.access_level
                      /\ c.max_downloads = f.max_downloads
                      /\ c.expires_at = f.expires_at}

InitFlags ==
    /\ files \in {<<StoredFile(c)>> : c \in FlagPolicies}
    /\ InitRest

NextFlags ==
    \/ \E p \in AProcs, u \in FlagCallers : AStart(p, u, 1)
    \/ \E p \in AProcs, s3Ok \in BOOLEAN, logOk \in BOOLEAN : ACheck(p, s3Ok, logOk)
    \/ \E p \in AProcs : AGetGrant(p)
    \/ \E p \in AProcs : AInsertGrant(p)
    \/ \E p \in AProcs, dbOk \in BOOLEAN : ASave(p, dbOk)
    \/ \E c \in FlagEdits(files[1]) : AdminEdit(1, c)

SpecFlags == InitFlags /\ [][NextFlags]_vars

(* Deletion alone, by the uploader, another student and an admin, of a     *)
(* stored file that may already have a grant row and a log row             *)
DeleteCallers == {"stu1", "stu2", "adm"}

EarlierGrant ==
    [rid |-> 1, file |-> 1, user |-> "stu2", access_type |-> "download",
     granted_by |-> "stu2", expires_at |-> Some(GrantTTL),
     access_count |-> 1, last_accessed |-> Some(0)]

InitDelete ==
    /\ now = 0
    /\ ticks = 0
    /\ files = <<StoredFile(CHOOSE c \in PdfPolicies :
                     /\ c.access_level = "student" /\ c.allow_download
                     /\ IsNone(c.max_downloads) /\ IsNone(c.expires_at))>>
    /\ grants \in {{}, {EarlierGrant}}
    /\ accessLog \in {<<>>, <<LogEntry(1, "stu2", "download", TRUE, 0)>>}
    /\ sessions = {}
    /\ store = {}
    /\ acc = [p \in AProcs |-> AccIdle]
    /\ upl = [p \in UProcs |-> UplIdle]
    /\ faults = 0
    /\ issued = [k \in Keys |-> 0]
    /\ tier = <<>>
    /\ replies = {}
    /\ presigned = {}

NextDelete ==
    \/ \E u \in DeleteCallers, fid \in 1..(Len(files) + 1) : DeleteFile(u, fid)
    \/ \E d \in {1} : Advance(d)

SpecDelete == InitDelete /\ [][NextDelete]_vars

(* The detector alone, applied to a log of any number of rows of two users *)
RecordedLog(n, m) ==
    [i \in 1..(n + m) |->
        LogEntry(1, IF i <= n THEN "stu1" ELSE "stu2", "download", TRUE, 0)]

InitDetector ==
    /\ now = 0
    /\ ticks = 0
    /\ files = <<StoredFile(CHOOSE c \in PdfPolicies :
                     /\ c.access_level = "student" /\ c.allow_download
                     /\ IsNone(c.max_downloads) /\ IsNone(c.expires_at))>>
    /\ grants = {}
    /\ accessLog \in {RecordedLog(n, m) : n \in 0..MaxLogRows, m \in 0..MaxLogRows}
    /\ sessions = {}
    /\ store = {}
    /\ acc = [p \in AProcs |-> AccIdle]
    /\ upl = [p \in UProcs |-> UplIdle]
    /\ faults = 0
    /\ issued = [k \in Keys |-> 0]
    /\ tier = <<>>
    /\ replies = {}
    /\ presigned = {}

NextDetector ==
    \/ \E u \in Callers : Detect(u, 1)
    \/ \E d \in {1, DetectorWindow, DetectorWindow + 1} : Advance(d)

SpecDetector == InitDetector /\ [][NextDetector]_vars

(* Live recordings and the requests for them *)
NextRecording ==
    \/ \E p \in AProcs, z \in Sizes, assoc \in BOOLEAN, putOk \in BOOLEAN,
          dbOk \in BOOLEAN : RStart(p, z, assoc, putOk, dbOk)
    \/ \E p \in AProcs, u \in Callers, fid \in 1..Len(files) : AStart(p, u, fid)
    \/ \E p \in AProcs, s3Ok \in BOOLEAN, logOk \in BOOLEAN : ACheck(p, s3Ok, logOk)
    \/ \E p \in AProcs : AGetGrant(p)
    \/ \E p \in AProcs : AInsertGrant(p)
    \/ \E p \in AProcs, dbOk \in BOOLEAN : ASave(p, dbOk)

SpecRecording == Init /\ [][NextRecording]_vars

(* Requests on one downloadable file after any number of recorded accesses *)
AdvisoryPolicies ==
    {c \in PdfPolicies : /\ c.allow_download /\ IsNone(c.max_downloads)
                         /\ IsNone(c.expires_at)}

InitAdvisory ==
    /\ files \in {<<StoredFile(c)>> : c \in AdvisoryPolicies}
    /\ now = 0
    /\ ticks = 0
    /\ grants = {}
    /\ accessLog \in {RecordedLog(n, 0) :
                         n \in {0, SuspiciousCount, SuspiciousCount + 1}}
    /\ sessions = {}
    /\ store = {}
    /\ acc = [p \in AProcs |-> AccIdle]
    /\ upl = [p \in UProcs |-> UplIdle]
    /\ faults = 0
    /\ issued = [k \in Keys |-> 0]
    /\ tier = <<>>
    /\ replies = {}
    /\ presigned = {}

NextAdvisory ==
    \/ \E p \in AProcs, u \in Callers : AStart(p, u, 1)
    \/ \E p \in AProcs, s3Ok \in BOOLEAN, logOk \in BOOLEAN : ACheck(p, s3Ok, logOk)
    \/ \E p \in AProcs : AGetGrant(p)
    \/ \E p \in AProcs : AInsertGrant(p)
    \/ \E p \in AProcs, dbOk \in BOOLEAN : ASave(p, dbOk)

SpecAdvisory == InitAdvisory /\ [][NextAdvisory]_vars

(* Session creation alone, applied to any request body *)
RequestSizes == {MaxSizeMB * MiB, MaxSizeMB * MiB + 1}
RequestTypes == {"pdf", "exe"}
RequestMimes == {None, Some(""), Some("application/pdf")}

NextSession ==
    \E u \in SessionOwners, n \in FileNames, z \in RequestSizes,
       ft \in RequestTypes, mt \in RequestMimes, level \in UploadLevels :
          CreateSession(u, n, z, ft, mt, level)

SpecSession == Init /\ [][NextSession]_vars

(* ------------------------------- claims -------------------------------- *)
FilesOfSession(sid) ==
    {i \in 1..Len(files) :
        \E o \in store : o.by_session = sid /\ o.path = files[i].file_path}

WritesOfSession(sid) == {o \in store : o.by_session = sid}

Completions(tok) ==
    {p \in UProcs : upl[p].token = tok /\ upl[p].resp.status = 201}

(* C1, token single-use: of the upload calls that carry the token of one    *)
(* session at most one completes, and no interleaving leaves two File rows  *)
(* or two store writes for the session.                                     *)
C1_TokenSingleUse ==
    \A s \in sessions :
        /\ Cardinality(FilesOfSession(s.sid)) <= 1
        /\ Cardinality(WritesOfSession(s.sid)) <= 1
        /\ Cardinality(Completions(s.upload_token)) <= 1

NoAuditFault(p) == \A i \in 1..Len(acc[p].logged) : acc[p].logged[i].written

(* C2, audit completeness: a get_file_access call that has returned, on any *)
(* path (file missing or inactive, refusal, URL, presign failure), has      *)
(* added exactly one log row, whose success flag is true iff the call       *)
(* returned a signed URL.  Calls whose log insert itself failed are left    *)
(* out.                                                                     *)
C2_AuditCompleteness ==
    \A p \in AProcs :
        (acc[p].pc = "done" /\ NoAuditFault(p))
            => /\ Len(acc[p].logged) = 1
               /\ acc[p].logged[1].success = acc[p].resp.signed_url

QuotaReached(p) ==
    /\ \A p2 \in AProcs \ {p} : acc[p2].pc \in {"idle", "done"}
    /\ acc[p].atype = "download"
    /\ ~IsNone(acc[p].fobj.max_downloads)
    /\ \E g \in GrantRows(acc[p].fid, acc[p].user, "download") :
          g.access_count >= Val(acc[p].fobj.max_downloads)

(* C3, quota enforcement: a download request decided while the caller's     *)
(* download grant has access_count >= the file's quota q (any q >= 0) is    *)
(* refused: it ends without a signed URL.  Sequential: no other call is in *)
(* flight.                                                                  *)
C3_QuotaEnforced ==
    [][\A p \in AProcs :
          (acc[p].pc = "loaded" /\ acc'[p].pc # "loaded" /\ QuotaReached(p))
              => (acc'[p].pc = "done" /\ ~acc'[p].resp.signed_url)]_vars

InFlight(k) ==
    \E p \in AProcs : /\ acc[p].pc \in {"count", "insert", "save"}
                      /\ <<acc[p].fid, acc[p].user, acc[p].atype>> = k

UsageCount(k) ==
    IF GrantRows(k[1], k[2], k[3]) = {} THEN 0
    ELSE Val(GetGrant(k[1], k[2], k[3])).access_count

(* C4, usage counting: whenever no call for a key is between its decision   *)
(* and its return, the grant's access_count equals the number of calls for  *)
(* the key that returned a signed URL, also when calls overlapped.  Stated  *)
(* for the runs in which no store or database operation raised.             *)
C4_UsageCounting ==
    faults = 0 =>
        \A k \in Keys : ~InFlight(k) => UsageCount(k) = issued[k]

Rank(r) ==
    CASE r = "student" -> 1
      [] r = "professor" -> 2
      [] r = "admin" -> 3
      [] OTHER -> 0

RankOf(profiles) ==
    IF profiles = {} THEN 0
    ELSE CHOOSE n \in {Rank(r) : r \in profiles} :
            \A m \in {Rank(r) : r \in profiles} : m <= n

TierAdmits(level, profiles) ==
    \/ level = "public"
    \/ level \in {"student", "professor", "admin"} /\ RankOf(profiles) >= Rank(level)

(* C5, tier check: with no role < student < professor < admin, a principal  *)
(* is admitted iff the tier is public or the principal's highest role is at *)
(* least the tier's role; so the check is monotone in the role, public      *)
(* admits everyone and the admin tier admits admin only.                    *)
C5_TierCheck ==
    /\ \A i \in 1..Len(tier) :
          tier[i].admitted <=> TierAdmits(tier[i].level, tier[i].profiles)
    /\ \A i, j \in 1..Len(tier) :
          (/\ tier[i].level = tier[j].level
           /\ tier[i].admitted
           /\ RankOf(tier[j].profiles) >= RankOf(tier[i].profiles))
              => tier[j].admitted
    /\ \A i \in 1..Len(tier) :
          /\ tier[i].level = "public" => tier[i].admitted
          /\ (tier[i].level = "admin" /\ tier[i].admitted)
                => "admin" \in tier[i].profiles

C5_Witness ==
    \E i, j \in 1..Len(tier) :
        /\ tier[i].level = "professor" /\ tier[i].profiles = {"student"}
        /\ ~tier[i].admitted
        /\ tier[j].level = "professor" /\ tier[j].profiles = {"professor"}
        /\ tier[j].admitted

PresentedLate(p) ==
    /\ upl[p].pc = "idle" /\ upl'[p].pc # "idle"
    /\ upl'[p].token.signed
    /\ now >= upl'[p].token.iat + 3601

(* C6, upload token expiry: an upload call that presents a token created at *)
(* t0 at a time t >= t0 + 3601 is rejected with the token-expired error and *)
(* changes neither the File table, the store nor any session, whatever the  *)
(* session's status.                                                        *)
C6_TokenExpiry ==
    [][\A p \in UProcs :
          PresentedLate(p)
              => /\ upl'[p].pc = "done"
                 /\ upl'[p].resp = Resp(400, "Upload token has expired", FALSE)
                 /\ files' = files /\ store' = store /\ sessions' = sessions]_vars

C6_Witness ==
    \E p \in UProcs :
        /\ upl[p].pc = "done"
        /\ upl[p].resp.message = "Upload token has expired"
        /\ upl[p].token.signed
        /\ now >= upl[p].token.iat + 3601
        /\ \E s \in SessionWithToken(upl[p].token) : s.status = "pending"
        /\ files = <<>> /\ store = {}

SizeDiffers(p) ==
    /\ upl[p].pc = "put" /\ upl'[p].pc # "put"
    /\ Val(upl[p].data) # upl[p].sobj.file_size

(* C7, size mismatch: an upload call whose file part has a size other than  *)
(* the session's declared size fails with the size-mismatch error, leaves   *)
(* the session in status failed, writes nothing to the store and creates no *)
(* File row.                                                                *)
C7_SizeMismatch ==
    [][\A p \in UProcs :
          SizeDiffers(p)
              => /\ upl'[p].pc = "done"
                 /\ upl'[p].resp =
                       Resp(400, "File size does not match expected size", FALSE)
                 /\ \A s \in sessions' :
                       s.sid = upl[p].sobj.sid => s.status = "failed"
                 /\ \E s \in sessions' : s.sid = upl[p].sobj.sid
                 /\ store' = store /\ files' = files
                 /\ upl'[p].puts = 0 /\ upl'[p].created = 0]_vars

C7_Witness ==
    \E p \in UProcs :
        /\ upl[p].pc = "done"
        /\ upl[p].resp.message = "File size does not match expected size"
        /\ \E s \in SessionWithToken(upl[p].token) :
              s.status = "failed" /\ s.error_message = "File size mismatch"
        /\ store = {} /\ files = <<>>

(* C8, store failure: the session of an upload call whose store write       *)
(* failed is never in status completed, and that call created no File row;  *)
(* a session in status completed had a successful store write.              *)
C8_StoreFailure ==
    /\ \A p \in UProcs :
          upl[p].resp.message = "Error uploading file to storage"
              => /\ upl[p].created = 0
                 /\ \A s \in SessionWithToken(upl[p].token) :
                       s.status # "completed"
    /\ \A s \in sessions :
          s.status = "completed" => WritesOfSession(s.sid) # {}

ReasonCodes ==
    {"not_found", "file_unavailable", "insufficient_tier", "download_disabled",
     "stream_disabled", "grant_expired", "quota_exceeded"}

Denied(p) ==
    /\ acc[p].pc = "done"
    /\ \/ acc[p].resp.status = 404
       \/ acc[p].resp.message =
             "Error generating file access: You don't have permission to access this file"

(* C9, denial reasons: a get_file_access call that was refused answers with *)
(* a client-error status, never a server fault, and names the failing step  *)
(* by a reason code (the 404 status standing for not_found).                *)
C9_DenialReasons ==
    \A p \in AProcs :
        Denied(p) => /\ acc[p].resp.status \in 400..499
                     /\ \/ acc[p].resp.status = 404
                        \/ acc[p].resp.message \in ReasonCodes

Loads(p) == acc[p].pc = "idle" /\ acc'[p].pc = "loaded"
Presigns(p) == acc[p].pc = "loaded" /\ acc'[p].pc = "count"

StaysDeleted ==
    \A fid \in 1..Len(files) : ~files[fid].is_active => ~files'[fid].is_active

FlagOff(p) ==
    \/ acc[p].atype = "download" /\ ~acc[p].fobj.allow_download
    \/ acc[p].atype = "stream" /\ ~acc[p].fobj.allow_streaming

(* C11, capability flags: a download request on a file read with            *)
(* allow_download false, and a stream request on a file read with           *)
(* allow_streaming false, ends refused, with no presign asked of the store, *)
(* for every role, admin included, and whether or not the caller has a      *)
(* grant row.                                                               *)
C11_CapabilityFlags ==
    [][\A p \in AProcs :
          (acc[p].pc = "loaded" /\ acc'[p].pc # "loaded" /\ FlagOff(p))
              => /\ acc'[p].pc = "done"
                 /\ ~acc'[p].resp.signed_url
                 /\ presigned' = presigned]_vars

C11_Witness ==
    \E p \in AProcs :
        /\ acc[p].pc = "done" /\ acc[p].user = "adm"
        /\ acc[p].atype = "download"
        /\ ~acc[p].resp.signed_url /\ acc[p].resp.status = 500
        /\ ~files[acc[p].fid].allow_download
        /\ GrantRows(acc[p].fid, "adm", "download") # {}

SessionRequests == {r \in replies : r.op = "create_upload_session"}

Acceptable(r) ==
    /\ r.file_size <= 100 * 1048576
    /\ r.file_type \in {"video", "pdf", "document", "image", "audio"}
    /\ ~IsNone(r.mime_type) /\ Val(r.mime_type) # ""
    /\ r.access_level \in {"public", "student", "professor", "admin"}

SessionsMadeBy(r) ==
    {x \in sessions : /\ x.user = r.user /\ x.created_at = r.at
                      /\ x.file_size = r.file_size
                      /\ x.file_type = r.file_type
                      /\ Some(x.mime_type) = r.mime_type}

(* C12, session creation: a create_upload_session call creates a session    *)
(* (expiring one hour after its creation) iff the size is at most 100 MiB,  *)
(* the file type and the access level are in their enums and the MIME type  *)
(* is non-empty; any other request is answered with a client error and      *)
(* leaves no session.                                                       *)
C12_SessionValidation ==
    \A r \in SessionRequests :
        IF Acceptable(r)
        THEN /\ r.status = 201
             /\ \E x \in SessionsMadeBy(r) : x.expires_at = Some(r.at + 3600)
        ELSE /\ r.status \in 400..499
             /\ SessionsMadeBy(r) = {}

(* C13, signed-URL TTL cap: every presigned URL asked of the object store,  *)
(* by any caller of generate_signed_url, has a TTL of at most 86400 s.      *)
C13_TtlCap == \A t \in presigned : t <= 86400

LogLost(p) ==
    /\ acc[p].pc = "loaded" /\ acc'[p].pc # "loaded"
    /\ ~acc'[p].logged[Len(acc'[p].logged)].written

(* C14, audit faults are swallowed: when the insert of the log row fails,   *)
(* get_file_access decides as it does otherwise: a request the policy       *)
(* allows goes on to the grant-counter update (or fails on the presign      *)
(* alone), a request the policy refuses gets the refusal, and the failure   *)
(* of the log is not what the caller is told.                               *)
C14_AuditFaultsSwallowed ==
    [][\A p \in AProcs :
          LogLost(p)
              => /\ accessLog' = accessLog
                 /\ IF verify_file_access(acc[p].fobj, acc[p].fid, acc[p].user,
                                          acc[p].atype, now)
                    THEN \/ acc'[p].pc = "count"
                         \/ acc'[p].resp = Resp(500,
                               "Error generating file access: Error generating file access URL",
                               FALSE)
                    ELSE /\ acc'[p].pc = "done"
                         /\ acc'[p].resp = Resp(500,
                               "Error generating file access: You don't have permission to access this file",
                               FALSE)]_vars

C14_Witness ==
    \E p \in AProcs :
        /\ acc[p].pc = "done" /\ acc[p].resp.signed_url
        /\ acc[p].logged # <<>> /\ ~acc[p].logged[1].written
        /\ accessLog = <<>>
        /\ UsageCount(<<acc[p].fid, acc[p].user, acc[p].atype>>) = 1

Detections == {r \in replies : r.op = "detect_suspicious_activity"}

RowsInWindow(r) ==
    Cardinality({i \in 1..Len(accessLog) :
                    /\ accessLog[i].user = r.user /\ accessLog[i].file = r.fid
                    /\ accessLog[i].timestamp >= r.at - 300
                    /\ accessLog[i].timestamp <= r.at})

(* C15 as claimed, detector threshold: detect_suspicious_activity answers   *)
(* true iff the log has 20 or more rows of the (user, file) pair in the     *)
(* trailing five minutes.                                                   *)
C15_AsClaimed == \A r \in Detections : r.result <=> RowsInWindow(r) >= 20

(* C15 as amended, detector threshold: detect_suspicious_activity answers   *)
(* true iff the log has more than 20 rows of the (user, file) pair in the   *)
(* trailing five minutes: true at 21 rows, false at 20.                     *)
C15_DetectorThreshold == \A r \in Detections : r.result <=> RowsInWindow(r) >= 21

C15_Witness ==
    \E r1, r2 \in Detections :
        /\ r1.result /\ RowsInWindow(r1) = 21
        /\ ~r2.result /\ RowsInWindow(r2) = 20

NewDeletions == {r \in replies' \ replies : r.op = "delete_file"}

MayDelete(u, fid) ==
    files[fid].uploaded_by = u \/ "admin" \in Profiles(u)

(* C16, delete authorization: a delete of an existing file by its owner or  *)
(* by an admin succeeds and leaves is_active false; a delete by anyone      *)
(* else fails and leaves the file as it was.                                *)
C16_DeleteAuthorization ==
    [][\A r \in NewDeletions :
          FileExists(r.fid)
              => IF MayDelete(r.user, r.fid)
                 THEN r.status = 200 /\ ~files'[r.fid].is_active
                 ELSE r.status \in 400..499 /\ files' = files]_vars

(* C17, idempotent soft delete: a delete changes nothing but the is_active  *)
(* flag of its file (the File row, the grant rows and the log rows all      *)
(* remain), and a delete by the owner of a file that is already inactive    *)
(* succeeds and leaves the state as it was after the first delete.          *)
C17_SoftDelete ==
    [][\A r \in NewDeletions :
          /\ grants' = grants /\ accessLog' = accessLog
          /\ Len(files') = Len(files)
          /\ \A i \in 1..Len(files) :
                \/ files'[i] = files[i]
                \/ i = r.fid /\ files'[i] = [files[i] EXCEPT !.is_active = FALSE]
          /\ (/\ FileExists(r.fid) /\ files[r.fid].uploaded_by = r.user
              /\ ~files[r.fid].is_active)
                => r.status = 200 /\ files' = files]_vars

C17_Witness ==
    \E r \in replies :
        /\ r.op = "delete_file" /\ r.status = 200 /\ ~r.was_active
        /\ FileExists(r.fid) /\ files[r.fid].uploaded_by = r.user
        /\ ~files[r.fid].is_active
        /\ grants # {} /\ accessLog # <<>>

ReachedSession(p) ==
    /\ upl[p].pc = "done"
    /\ upl[p].resp.message \in
          {"Upload session has expired", "No file provided",
           "File size does not match expected size",
           "Error uploading file to storage", "Error uploading file",
           "File uploaded successfully"}

(* C18, upload audit logging: for every upload call that loaded a session   *)
(* and has returned, finalized or failed, the access log has a row with     *)
(* action upload of the caller.                                             *)
C18_UploadLogged ==
    \A p \in UProcs :
        ReachedSession(p)
            => \E i \in 1..Len(accessLog) :
                  accessLog[i].action = "upload" /\ accessLog[i].user = upl[p].user

QuotaOf(k) ==
    IF FileExists(k[1]) /\ k[3] = "download" THEN files[k[1]].max_downloads
    ELSE None

(* C19, quota under concurrency: for a file with download quota q >= 1 the  *)
(* number of download requests of one principal that returned a signed URL  *)
(* never exceeds q, under every interleaving.  Stated for the runs in which *)
(* no store or database operation raised.                                   *)
C19_QuotaConcurrent ==
    faults = 0 =>
        \A k \in Keys :
            (~IsNone(QuotaOf(k)) /\ Val(QuotaOf(k)) >= 1)
                => issued[k] <= Val(QuotaOf(k))

Lifecycle ==
    {<<"pending", "uploading">>, <<"uploading", "completed">>,
     <<"uploading", "failed">>, <<"pending", "cancelled">>,
     <<"uploading", "cancelled">>}

(* C20, session lifecycle: a session's status changes only along pending -> *)
(* uploading, uploading -> completed, uploading -> failed and {pending,     *)
(* uploading} -> cancelled; a status of completed, failed or cancelled      *)
(* never changes again.                                                     *)
C20_SessionLifecycle ==
    [][\A s \in sessions : \A s2 \in sessions' :
          (s2.sid = s.sid /\ s2.status # s.status)
              => <<s.status, s2.status>> \in Lifecycle]_vars

FailsAfterLoad(p) ==
    /\ upl[p].pc \in {"claim", "put", "create"}
    /\ upl'[p].pc = "done"
    /\ upl'[p].resp.status # 201

(* C21, failed uploads end terminal: when an upload call that has loaded    *)
(* its session returns a failure (no file part, size mismatch, store        *)
(* failure, failure of the File insert), the session row is in failed or    *)
(* cancelled when the call returns, never in pending or uploading.          *)
C21_FailedEndsTerminal ==
    [][\A p \in UProcs :
          FailsAfterLoad(p)
              => \A s \in sessions' :
                    s.sid = upl[p].sobj.sid
                        => s.status \in {"failed", "cancelled"}]_vars

UploadsAtRest == \A p \in UProcs : upl[p].pc \in {"idle", "done"}

ReferencedBy(fid) == {s \in sessions : s.uploaded_file = Some(fid)}

(* C22, completed means finalized: a session has status completed exactly   *)
(* when its File reference is set, and then completed_at is set; and once   *)
(* no upload call is in flight, each File row created by upload is          *)
(* referenced by exactly one session, which has status completed.           *)
C22_CompletedMeansFinalized ==
    /\ \A s \in sessions :
          /\ (s.status = "completed") <=> ~IsNone(s.uploaded_file)
          /\ s.status = "completed" => ~IsNone(s.completed_at)
    /\ (UploadsAtRest /\ faults = 0)
          => \A fid \in 1..Len(files) :
                /\ Cardinality(ReferencedBy(fid)) = 1
                /\ \A s \in ReferencedBy(fid) : s.status = "completed"

TouchesExpired(p, s) ==
    /\ upl[p].pc = "idle" /\ upl'[p].pc # "idle"
    /\ s.upload_token = upl'[p].token /\ s.user = upl'[p].user
    /\ s.status \in {"pending", "uploading"}
    /\ is_expired(s.expires_at, now)

Presents(p) == upl[p].pc = "idle" /\ upl'[p].pc # "idle"

Entitled(tok, u, t) ==
    /\ tok.signed /\ tok.exp >= t
    /\ \E s \in sessions : /\ s.upload_token = tok /\ s.user = u
                           /\ s.status \in {"pending", "uploading"}

(* C24, defense in depth: an upload call goes past the lookup only when its *)
(* token is signed and unexpired, a session row with exactly that token is  *)
(* in pending or uploading, and the caller is that session's owner; a call  *)
(* that lacks one of the three returns a failure at once and changes no     *)
(* session (a call is turned away though it has all three only at the       *)
(* instant now = exp); and only a call holding such a session writes to the *)
(* store.                                                                   *)
C24_DefenseInDepth ==
    [][\A p \in UProcs :
          /\ Presents(p)
                => /\ upl'[p].pc = "claim"
                      => Entitled(upl'[p].token, upl'[p].user, now)
                   /\ upl'[p].pc # "claim"
                      => /\ upl'[p].pc = "done"
                         /\ upl'[p].resp.status \in {400, 404}
                         /\ sessions' = sessions /\ store' = store
                         /\ \/ ~Entitled(upl'[p].token, upl'[p].user, now)
                            \/ upl'[p].token.exp = now
          /\ upl'[p].puts > upl[p].puts
                => /\ upl[p].token.signed
                   /\ \E s \in sessions : /\ s.sid = upl[p].sobj.sid
                                          /\ s.upload_token = upl[p].token
                                          /\ s.user = upl[p].user]_vars

C24_Witness ==
    \E p, q \in UProcs :
        /\ upl[p].pc = "done" /\ upl[p].user = "stu2"
        /\ upl[p].token.signed /\ upl[p].token.exp >= now
        /\ \E s \in sessions : /\ s.upload_token = upl[p].token
                               /\ s.user = "stu1" /\ s.status = "pending"
        /\ upl[p].resp.status = 404
        /\ upl[q].pc = "done" /\ upl[q].token = OrphanToken
        /\ upl[q].resp.status = 404
        /\ store = {}

(* C25, tier enum on finalized files: every File row created by upload has  *)
(* an access_level in {public, student, professor, admin}, whatever value   *)
(* the upload request carried.                                              *)
C25_TierEnum ==
    \A fid \in 1..Len(files) :
        files[fid].access_level \in {"public", "student", "professor", "admin"}

Checks(p) == acc[p].pc = "loaded" /\ acc'[p].pc # "loaded"

GrantLapsed(p) ==
    \E g \in GrantRows(acc[p].fid, acc[p].user, acc[p].atype) :
        ~IsNone(g.expires_at) /\ now > Val(g.expires_at)

OpenToCaller(p) ==
    LET f == acc[p].fobj IN
    /\ f.is_active /\ ~is_expired(f.expires_at, now)
    /\ IsNone(f.max_downloads)
    /\ acc[p].atype = "download" => f.allow_download
    /\ acc[p].atype = "stream" => f.allow_streaming
    /\ TierAdmits(f.access_level, Profiles(acc[p].user))
    /\ \A g \in grants : g.granted_by = g.user

RefusedAtCheck(p) ==
    /\ acc'[p].pc = "done"
    /\ acc'[p].resp.message =
          "Error generating file access: You don't have permission to access this file"

(* C27, lazy grants only track usage: a request by a tier-eligible caller   *)
(* on an active, unexpired file with no quota, its capability flag on and   *)
(* no grant row other than those created by update_access_count, is never   *)
(* refused, at whatever time it is made.                                    *)
C27_LazyGrantsOnlyTrack ==
    [][\A p \in AProcs :
          (Checks(p) /\ OpenToCaller(p)) => ~RefusedAtCheck(p)]_vars

(* C28, grant uniqueness: in every reachable state there is at most one     *)
(* FileAccess row per (file, user, access type), also after two first       *)
(* accesses of one principal have overlapped; an access that finds the row  *)
(* writes that row and adds none.                                           *)
C28_GrantUniqueness ==
    /\ \A k \in Keys : Cardinality(GrantRows(k[1], k[2], k[3])) <= 1
    /\ \A p \in AProcs :
          (acc[p].pc = "save" /\ ~IsNone(acc[p].gobj))
              => \E g \in grants : g.rid = Val(acc[p].gobj).rid

C28_Witness ==
    \E p, q \in AProcs :
        /\ p # q
        /\ acc[p].user = acc[q].user /\ acc[p].fid = acc[q].fid
        /\ acc[p].atype = acc[q].atype
        /\ acc[p].pc = "done" /\ acc[p].resp.signed_url
        /\ acc[q].pc = "done" /\ acc[q].resp.signed_url
        /\ Cardinality(GrantRows(acc[p].fid, acc[p].user, acc[p].atype)) = 1
        /\ \A g \in GrantRows(acc[p].fid, acc[p].user, acc[p].atype) :
              g.access_count = 1
        /\ faults = 0

(* C29, token uniqueness: every create_upload_session call with valid input *)
(* is answered 201, also when the same owner asks twice for the same file   *)
(* name and size within one second, and no two sessions hold the same       *)
(* token.                                                                   *)
C29_TokenUniqueness ==
    /\ \A r \in SessionRequests : Acceptable(r) => r.status = 201
    /\ \A s1, s2 \in sessions :
          s1.sid # s2.sid => s1.upload_token # s2.upload_token

Arrives(p) ==
    /\ acc[p].pc = "idle" /\ acc'[p].pc # "idle"
    /\ FileExists(acc'[p].fid) /\ files[acc'[p].fid].is_active

(* C30, detector is advisory: over states that differ only in the number of *)
(* recent access-log rows of the caller for the file (none, 20, 21 and      *)
(* more), a request on an active, unexpired, downloadable file without      *)
(* quota is never turned away on arrival and is refused at the check        *)
(* exactly when the caller's role does not reach the file's tier: the       *)
(* decision is the same whatever the log holds.                             *)
C30_DetectorAdvisory ==
    [][\A p \in AProcs :
          /\ Arrives(p) => acc'[p].pc = "loaded"
          /\ Checks(p)
                => (RefusedAtCheck(p)
                      <=> ~TierAdmits(acc[p].fobj.access_level,
                                      Profiles(acc[p].user)))]_vars

C30_Witness ==
    \E p \in AProcs :
        /\ acc[p].pc = "done" /\ acc[p].resp.signed_url
        /\ acc[p].resp.status = 200
        /\ detect_suspicious_activity(accessLog, acc[p].user, acc[p].fid, now)
        /\ Len(accessLog) = SuspiciousCount + 2

====
